---- MODULE Spec2Model ----
(***************************************************************************)
(* Camoufox Profile Manager GUI (src/camoufox_profile_gui.py).             *)
(*                                                                         *)
(* The state is the window of CamoufoxProfileGUI: the Treeview rows and    *)
(* its selection, the status bar variable, the modal ProfileDialog when    *)
(* one is open, and the background threads started by open_profile.  The   *)
(* external tool (scripts/manage_camoufox_profiles.py) is the environment: *)
(* every subprocess.run draws its outcome (spawn failure, exit code,       *)
(* stdout) from a small set.                                               *)
(*                                                                         *)
(* A button callback runs to completion on the single UI thread, so it is  *)
(* one action; create_profile and edit_profile block in wait_window while  *)
(* the dialog is open, so they are split at the dialog.  The thread of     *)
(* open_profile is stepped separately (status write, subprocess.run and    *)
(* message box, final status write) and interleaves with the UI thread at  *)
(* handler boundaries and while a dialog is open.  One such thread is      *)
(* alive at a time: Open Profile on a selected row is not taken while the  *)
(* previous thread runs.                                                   *)
(*                                                                         *)
(* last is history, not program state: the record of the handler that has  *)
(* just returned on the UI thread, or that is blocked in its dialog (what  *)
(* it ran and showed).  A step of the thread after the handler returned    *)
(* replaces the record.                                                    *)
(***************************************************************************)
EXTENDS Integers, Sequences, FiniteSets, TLC

VARIABLES
    ui,         \* "init" | "idle" | "dialog" | "crashed"
    table,      \* rows of self.tree, in display order
    selection,  \* set of selected row indices (self.tree.selection())
    status,     \* self.status_var, and the thread that wrote it last
    dialog,     \* the open ProfileDialog (NoDialog when none)
    workers,    \* threads started by open_profile
    last        \* history of the UI handler that ran last

vars == <<ui, table, selection, status, dialog, workers, last>>

\* ---------------------------------------------------------------- bounds

\* Largest number of profiles the tool lists.
MaxProfiles == 2

\* ---------------------------------------------------------------- text

\* The characters of every text that reaches str.strip() or Tk's value
\* conversion.  TLA+ strings are atoms, so each text is given its characters.
Chars(s) ==
    CASE s = ""        -> <<>>
      [] s = " "       -> <<" ">>
      [] s = "a"       -> <<"a">>
      [] s = " a "     -> <<" ", "a", " ">>
      [] s = "A"       -> <<"A">>
      [] s = "B"       -> <<"B">>
      [] s = "C"       -> <<"C">>
      [] s = "p1"      -> <<"p", "1">>
      [] s = "42"      -> <<"4", "2">>
      [] s = "p3"      -> <<"p", "3">>
      [] s = "default" -> <<"d", "e", "f", "a", "u", "l", "t">>
      [] s = "/s"      -> <<"/", "s">>
      [] s = "1.2.3.4" -> <<"1", ".", "2", ".", "3", ".", "4">>
      [] s = "yes"     -> <<"y", "e", "s">>
      [] s = "no"      -> <<"n", "o">>

AllTexts ==
    {"", " ", "a", " a ", "A", "B", "C", "p1", "42", "p3", "default", "/s",
     "1.2.3.4", "yes", "no"}

Text(q) == CHOOSE s \in AllTexts : Chars(s) = q

IsSpace(c) == c = " "

RECURSIVE LStrip(_)
LStrip(q) == IF q # <<>> /\ IsSpace(Head(q)) THEN LStrip(Tail(q)) ELSE q

RECURSIVE RStrip(_)
RStrip(q) ==
    IF q # <<>> /\ IsSpace(q[Len(q)])
    THEN RStrip(SubSeq(q, 1, Len(q) - 1))
    ELSE q

\* str.strip()
strip(s) == Text(RStrip(LStrip(Chars(s))))

Digits == {"0", "1", "2", "3", "4", "5", "6", "7", "8", "9"}

\* Whether int(s) succeeds: what tkinter's value conversion tries on every
\* value read back from the tree (tree.item(...)["values"]).
IsIntLiteral(s) ==
    LET q == RStrip(LStrip(Chars(s)))
    IN  q # <<>> /\ \A i \in 1..Len(q) : q[i] \in Digits

\* ------------------------------------------------------- the external tool

PythonPath == ".venv/bin/python"
ScriptPath == "scripts/manage_camoufox_profiles.py"

\* A command: the argument vector, and whether every element is a str
\* (an id read back from the tree as an int makes the vector unusable).
Cmd(args, allStr) == [argv |-> <<PythonPath, ScriptPath>> \o args, allStr |-> allStr]
NoCmd == [argv |-> <<>>, allStr |-> TRUE]

\* JSON documents --------------------------------------------------------
\* An element of an iterable document: a dict with some of the four keys, or
\* something that is not a dict (a number, a key of a top-level dict).
Obj(keys, id, name, sp, ph) ==
    [dict |-> TRUE, keys |-> keys, id |-> id, name |-> name,
     storage_path |-> sp, proxy_host |-> ph]
NotADict == [dict |-> FALSE, keys |-> {}, id |-> "", name |-> "",
             storage_path |-> "", proxy_host |-> ""]

AllKeys == {"id", "name", "storage_path", "proxy_host"}
P1 == Obj(AllKeys, "p1", "A", "default", "1.2.3.4")
P2 == Obj(AllKeys, "42", "B", "/s", "")
P3 == Obj({"id", "name", "storage_path"}, "p3", "C", "/s", "")
Profiles == {P1, P2, P3}
\* An object without "id".
NoIdObj == Obj({"name", "storage_path"}, "", "A", "default", "")

\* A document: its JSON type and, when Python can iterate over the parsed
\* value, the elements the iteration yields.
Doc(t, elems) == [t |-> t, elems |-> elems]
NoDoc == Doc("none", <<>>)

RECURSIVE DistinctSeqs(_, _)
DistinctSeqs(S, n) ==
    IF n = 0 THEN {<<>>}
    ELSE LET shorter == DistinctSeqs(S, n - 1) IN
         shorter \cup
         {r \in {Append(q, x) : q \in shorter, x \in S} :
              \A i \in 1..(Len(r) - 1) : r[i] # r[Len(r)]}

\* The well-formed listings: arrays of distinct profiles.
ProfileArrays == DistinctSeqs(Profiles, MaxProfiles)

WellFormedDocs == {Doc("array", q) : q \in ProfileArrays}

\* Valid JSON that is not an array of profile objects.
MalformedDocs ==
    { Doc("null", <<>>),                 \* null
      Doc("object", <<>>),               \* {}
      Doc("object", <<NotADict>>),       \* {"error": "x"}: iterating yields the key
      Doc("array", <<NotADict>>),        \* [1]
      Doc("array", <<P1, NoIdObj>>),     \* second object lacks "id"
      Doc("array", <<NoIdObj>>) }

\* stdout of a run: plain text (not JSON), or the text of a JSON document.
Out(s, doc) == [s |-> s, doc |-> doc]
TextOut(s) == Out(s, NoDoc)
JsonOut(doc) == Out("json", doc)

\* Outcome of subprocess.run: the process could not be spawned, or it ran
\* and gave an exit code and stdout.
Res(spawned, rc, out) == [spawned |-> spawned, rc |-> rc, out |-> out]
NoRes == Res(FALSE, 0, TextOut(""))
SpawnFailure == Res(FALSE, 1, TextOut(""))

\* What create / edit / delete can end with.
ToolResults ==
    {SpawnFailure, Res(TRUE, 0, TextOut("")), Res(TRUE, 0, TextOut("a")),
     Res(TRUE, 1, TextOut("a"))}

\* What open can end with: stdout may also be only whitespace.
OpenResults == ToolResults \cup {Res(TRUE, 0, TextOut(" "))}

\* What list --json can end with.
ListResults ==
    ToolResults
    \cup {Res(TRUE, 0, JsonOut(d)) : d \in WellFormedDocs \cup MalformedDocs}
    \cup {Res(TRUE, 1, JsonOut(Doc("array", <<>>)))}

\* ------------------------------------------------------------ history

\* One thing a handler did: a subprocess.run, a message box, a thread start.
Ev(e, kind, title, cmd, res) ==
    [e |-> e, kind |-> kind, title |-> title, cmd |-> cmd, res |-> res]
RunEv(cmd, res) == Ev("run", "", "", cmd, res)
Popup(kind, title) == Ev("popup", kind, title, NoCmd, NoRes)
ThreadEv(cmd) == Ev("thread", "", "", cmd, NoRes)

\* The record of a handler: what it ran and showed, the exception that left
\* it, whether the tree holds the rows it held when the handler started, the
\* user's answer to its dialog, whether that dialog closed or stands open
\* on a rejected submission, and the content of the entries at the
\* submission it accepted.
Fields(name, sp, proxy) == [name |-> name, storage_path |-> sp, proxy |-> proxy]
NoFields == Fields("", "", "")
Hist(op, events, exc, tableSame, answer, rejected, submitted) ==
    [op |-> op, events |-> events, exc |-> exc, tableSame |-> tableSame,
     answer |-> answer, rejected |-> rejected, submitted |-> submitted]
NoHist(op) == Hist(op, <<>>, "none", TRUE, "", FALSE, NoFields)

\* ----------------------------------------------------------- status bar

St(text, n, cmd, by) == [text |-> text, n |-> n, cmd |-> cmd, by |-> by]
Ready(by) == St("Ready", 0, NoCmd, by)
Running(cmd, by) == St("Running", 0, cmd, by)
Loaded(n, by) == St("Loaded", n, NoCmd, by)
ErrorLoading(by) == St("Error loading profiles", 0, NoCmd, by)

\* ----------------------------------------------------------- run_command

\* The value run_command returns: stdout, or None.
Ret(ok, out) == [ok |-> ok, out |-> out]
None == Ret(FALSE, TextOut(""))

\* Truth value Python gives the returned value: None and "" are false.
PyTruthy(ret) == ret.ok /\ ret.out.s # ""

\* run_command(cmd, show_output) when subprocess.run ends with res: the value
\* returned and what was run and shown.  The status bar is "Ready" afterwards
\* in every case (the finally clause).
run_command(cmd, res, show_output) ==
    IF ~cmd.allStr
    THEN \* ' '.join(cmd) raises TypeError before anything is run
         [ret |-> None, events |-> <<Popup("showerror", "Error")>>]
    ELSE IF ~res.spawned
    THEN [ret |-> None,
          events |-> <<RunEv(cmd, res), Popup("showerror", "Error")>>]
    ELSE IF res.rc = 0
    THEN [ret |-> Ret(TRUE, res.out),
          events |-> <<RunEv(cmd, res)>> \o
                     (IF show_output /\ strip(res.out.s) # ""
                      THEN <<Popup("showinfo", "Command Output")>>
                      ELSE <<>>)]
    ELSE [ret |-> None,
          events |-> <<RunEv(cmd, res), Popup("showerror", "Error")>>]

\* ------------------------------------------------------ refresh_profiles

ListCmd == Cmd(<<"list", "--json">>, TRUE)

\* json.loads: a value, or JSONDecodeError.
json_loads(out) == [ok |-> out.doc # NoDoc, doc |-> out.doc]

\* proxy_status with the key's presence taken for a configured proxy.
proxy_status_by_key(profile) ==
    IF "proxy_host" \in profile.keys THEN "yes" ELSE "no"

proxy_status(profile) ==
    IF "proxy_host" \in profile.keys /\ profile.proxy_host # ""
    THEN "yes" ELSE "no"

Row(id, name, sp, proxy) ==
    [id |-> id, name |-> name, storage_path |-> sp, proxy |-> proxy]

\* The loop body of refresh_profiles over the remaining elements: the rows
\* inserted so far and the exception that ended the loop, if any.
RECURSIVE InsertRows(_, _)
InsertRows(elems, acc) ==
    IF elems = <<>> THEN [rows |-> acc, exc |-> "none"]
    ELSE LET profile == Head(elems) IN
         IF ~profile.dict
         THEN [rows |-> acc, exc |-> "AttributeError"]
         ELSE IF ~({"id", "name", "storage_path"} \subseteq profile.keys)
         THEN [rows |-> acc, exc |-> "KeyError"]
         ELSE InsertRows(Tail(elems),
                         Append(acc, Row(profile.id, profile.name,
                                         profile.storage_path,
                                         proxy_status(profile))))

Iterable(doc) == doc.t \in {"array", "object", "string"}

\* refresh_profiles() on a tree holding tbl, when list --json ends with res.
refresh_profiles(tbl, res) ==
    LET cleared == SubSeq(tbl, 1, 0)  \* every item of the tree is deleted first
        r == run_command(ListCmd, res, FALSE)
    IN  IF ~PyTruthy(r.ret)
        THEN [table |-> cleared, status |-> Ready("ui"), events |-> r.events,
              exc |-> "none"]
        ELSE LET parsed == json_loads(r.ret.out) IN
             IF ~parsed.ok
             THEN [table |-> cleared, status |-> ErrorLoading("ui"),
                   events |-> Append(r.events, Popup("showerror", "Error")),
                   exc |-> "none"]
             ELSE IF ~Iterable(parsed.doc)
             THEN [table |-> cleared, status |-> Ready("ui"),
                   events |-> r.events, exc |-> "TypeError"]
             ELSE LET ins == InsertRows(parsed.doc.elems, cleared) IN
                  [table |-> ins.rows,
                   status |-> IF ins.exc = "none"
                              THEN Loaded(Len(parsed.doc.elems), "ui")
                              ELSE Ready("ui"),
                   events |-> r.events, exc |-> ins.exc]

\* -------------------------------------------------- get_selected_profile

Min(S) == CHOOSE x \in S : \A y \in S : x <= y

Profile(found, id, isStr, name, sp, proxy) ==
    [found |-> found, id |-> id, isStr |-> isStr, name |-> name,
     storage_path |-> sp, proxy |-> proxy]
NoProfile == Profile(FALSE, "", TRUE, "", "", "")

\* get_selected_profile falling back to the first row without a selection.
get_selected_profile_first_row(tbl, sel) ==
    IF tbl = <<>> THEN NoProfile
    ELSE LET item == tbl[IF sel = {} THEN 1 ELSE Min(sel)] IN
         Profile(TRUE, item.id, ~IsIntLiteral(item.id), item.name,
                 item.storage_path, item.proxy)

\* get_selected_profile(): None without a selection, else the values of the
\* first selected item as tkinter reads them back: an id that reads as an
\* integer comes back an int, not a str.
get_selected_profile(tbl, sel) ==
    IF sel = {} THEN NoProfile
    ELSE LET item == tbl[Min(sel)] IN
         Profile(TRUE, item.id, ~IsIntLiteral(item.id), item.name,
                 item.storage_path, item.proxy)

\* ------------------------------------------------------------ ProfileDialog

\* An open dialog: its entries as setup_dialog fills them from initial_data,
\* and the profile edit_profile opened it for.
Dlg(kind, initial_data, profile) ==
    [kind |-> kind, initial_data |-> initial_data, profile |-> profile]
NoDialog == Dlg("none", NoFields, NoProfile)

\* setup_dialog: the entries start as initial_data.get(key, "").
setup_dialog(initial_data) ==
    Fields(initial_data.name, initial_data.storage_path, initial_data.proxy)

\* What the user can leave in the entries of the dialog d at a submission:
\* the content the entry was opened with, or something typed over it.
NameEntries(d) == {"", " ", " a "} \cup {d.initial_data.name}
PathEntries(d) == {"", " a "} \cup {d.initial_data.storage_path}
ProxyEntries(d) == {"", " ", " a "} \cup {d.initial_data.proxy}

\* initial_data with the proxy column of the row filled in.
edit_initial_data_prefilled(profile) ==
    Fields(profile.name,
           IF profile.storage_path # "default"
           THEN profile.storage_path ELSE "",
           profile.proxy)

\* initial_data of the dialog edit_profile opens.
edit_initial_data(profile) ==
    Fields(profile.name,
           IF profile.storage_path # "default"
           THEN profile.storage_path ELSE "",
           "")

\* ok_clicked testing the name as typed, without strip().
ok_clicked_unstripped(name_var, storage_var, proxy_var) ==
    [accepted |-> name_var # "",
     name |-> name_var,
     storage_path |-> strip(storage_var),
     proxy |-> strip(proxy_var)]

\* ok_clicked(): whether the dialog closes, and the result it then holds.
ok_clicked(name_var, storage_var, proxy_var) ==
    LET name == strip(name_var) IN
    [accepted |-> name # "",
     name |-> name,
     storage_path |-> strip(storage_var),
     proxy |-> strip(proxy_var)]

\* ----------------------------------------------------------- the commands

Flag(flag, value) == IF value # "" THEN <<flag, value>> ELSE <<>>

create_cmd(result) ==
    Cmd(<<"create", result.name>>
        \o Flag("--proxy", result.proxy)
        \o Flag("--storage-path", result.storage_path), TRUE)

edit_cmd(profile, result) ==
    Cmd(<<"edit", profile.id>>
        \o Flag("--name", result.name)
        \o Flag("--proxy", result.proxy)
        \o Flag("--storage-path", result.storage_path), profile.isStr)

\* delete_cmd removing the storage whatever the answer.
delete_cmd_always_remove(profile, response) ==
    Cmd(<<"delete", profile.id, "--remove-storage">>, profile.isStr)

\* response: "yes" | "no" of askyesnocancel ("cancel" returns before this).
delete_cmd(profile, response) ==
    Cmd(<<"delete", profile.id>>
        \o (IF response = "yes" THEN <<"--remove-storage">> ELSE <<>>),
        profile.isStr)

open_cmd(profile) == Cmd(<<"open", profile.id>>, profile.isStr)

\* The test taken for passed whatever run_command returned.
CommandSucceeded_always(ret) == TRUE

\* The test `if self.run_command(cmd):` of create / edit / delete.
CommandSucceeded(ret) == PyTruthy(ret)

\* The tail shared by create_profile, edit_profile and delete_profile:
\*     if self.run_command(cmd): showinfo("Success"); self.refresh_profiles()
run_and_refresh(tbl, st, cmd, res, listRes) ==
    LET r == run_command(cmd, res, FALSE) IN
    IF CommandSucceeded(r.ret)
    THEN LET ref == refresh_profiles(tbl, listRes) IN
         [table |-> ref.table, status |-> ref.status, refreshed |-> TRUE,
          events |-> r.events \o <<Popup("showinfo", "Success")>> \o ref.events,
          exc |-> ref.exc]
    ELSE [table |-> tbl, status |-> Ready("ui"), refreshed |-> FALSE,
          events |-> r.events, exc |-> "none"]

\* ---------------------------------------------------------------- workers

\* The threads open_profile can start.
Threads == {"t1"}
Worker(pc, cmd, shown) == [pc |-> pc, cmd |-> cmd, shown |-> shown]
Idle == Worker("idle", NoCmd, "none")

\* The message box a run_command shows, if it shows one.
Shown(events) ==
    IF \E i \in 1..Len(events) : events[i].e = "popup"
    THEN events[CHOOSE i \in 1..Len(events) : events[i].e = "popup"].kind
    ELSE "none"

\* The outcomes of the list run that follows cmd ending with res: one
\* placeholder when no list run follows.
ListResultsAfter(cmd, res) ==
    IF CommandSucceeded(run_command(cmd, res, FALSE).ret)
    THEN ListResults ELSE {NoRes}

\* The record a step of a thread leaves when no handler is running: the
\* record of a handler describes the window as the handler left it.
AfterThreadStep(h) == IF ui = "idle" THEN NoHist("thread") ELSE h

\* ------------------------------------------------------------------- Init

\* After setup_ui(), before the refresh_profiles() that ends __init__.
Init ==
    /\ ui = "init"
    /\ table = <<>>
    /\ selection = {}
    /\ status = Ready("ui")
    /\ dialog = NoDialog
    /\ workers = [w \in Threads |-> Idle]
    /\ last = NoHist("setup_ui")

\* ------------------------------------------------------------- UI thread

\* The handler's effect on the window once it has run to its end.
Done(op, out, answer, submitted) ==
    /\ table' = out.table
    /\ status' = out.status
    /\ selection' = IF out.refreshed THEN {} ELSE selection
    /\ last' = Hist(op, out.events, out.exc, out.table = table, answer,
                    FALSE, submitted)

Refreshed(tbl, res) ==
    LET ref == refresh_profiles(tbl, res) IN
    [table |-> ref.table, status |-> ref.status, refreshed |-> TRUE,
     events |-> ref.events, exc |-> ref.exc]

NoSelection(tbl, st) ==
    [table |-> tbl, status |-> st, refreshed |-> FALSE,
     events |-> <<Popup("showwarning", "No Selection")>>, exc |-> "none"]

\* __init__: refresh_profiles(); an exception it raises ends the process.
Construct ==
    /\ ui = "init"
    /\ \E res \in ListResults :
          /\ Done("__init__", Refreshed(table, res), "", NoFields)
          /\ ui' = IF refresh_profiles(table, res).exc = "none"
                   THEN "idle" ELSE "crashed"
    /\ UNCHANGED <<dialog, workers>>

\* The Refresh button.
Refresh ==
    /\ ui = "idle"
    /\ \E res \in ListResults : Done("refresh", Refreshed(table, res), "", NoFields)
    /\ UNCHANGED <<ui, dialog, workers>>

\* The user selects rows of the tree (or none).
Select ==
    /\ ui = "idle"
    /\ \E S \in SUBSET (1..Len(table)) :
          /\ S # selection
          /\ selection' = S
    /\ last' = NoHist("select")
    /\ UNCHANGED <<ui, table, status, dialog, workers>>

\* create_profile up to wait_window.
CreateProfile ==
    /\ ui = "idle"
    /\ ui' = "dialog"
    /\ dialog' = Dlg("create", setup_dialog(NoFields), NoProfile)
    /\ last' = NoHist("create")
    /\ UNCHANGED <<table, selection, status, workers>>

\* edit_profile up to wait_window, or to its return without a selection.
EditProfile ==
    /\ ui = "idle"
    /\ LET profile == get_selected_profile(table, selection) IN
       IF ~profile.found
       THEN /\ Done("edit", NoSelection(table, status), "", NoFields)
            /\ UNCHANGED <<ui, dialog>>
       ELSE /\ ui' = "dialog"
            /\ dialog' = Dlg("edit", setup_dialog(edit_initial_data(profile)),
                             profile)
            /\ last' = NoHist("edit")
            /\ UNCHANGED <<table, selection, status>>
    /\ UNCHANGED workers

\* OK or Return with entries the dialog rejects: an error box, the dialog
\* stays open.
DialogRejected ==
    /\ ui = "dialog"
    /\ \E n \in NameEntries(dialog), sp \in PathEntries(dialog),
          px \in ProxyEntries(dialog) :
          ~ok_clicked(n, sp, px).accepted
    /\ last' = [last EXCEPT !.events = <<Popup("showerror", "Error")>>,
                            !.rejected = TRUE]
    /\ UNCHANGED <<ui, table, selection, status, dialog, workers>>

\* OK or Return with entries the dialog accepts: the dialog closes and
\* create_profile / edit_profile runs on from wait_window to its end.
DialogAccepted ==
    /\ ui = "dialog"
    /\ \E n \in NameEntries(dialog), sp \in PathEntries(dialog),
          px \in ProxyEntries(dialog) :
          LET result == ok_clicked(n, sp, px)
              cmd == IF dialog.kind = "create" THEN create_cmd(result)
                     ELSE edit_cmd(dialog.profile, result)
          IN  /\ result.accepted
              /\ \E res \in ToolResults :
                 \E listRes \in ListResultsAfter(cmd, res) :
                    Done(dialog.kind,
                         run_and_refresh(table, status, cmd, res, listRes),
                         "ok", Fields(n, sp, px))
    /\ ui' = "idle"
    /\ dialog' = NoDialog
    /\ UNCHANGED workers

\* Cancel or Escape: the dialog closes without a result.
DialogCancel ==
    /\ ui = "dialog"
    /\ ui' = "idle"
    /\ dialog' = NoDialog
    /\ last' = [last EXCEPT !.events = <<>>, !.answer = "cancel"]
    /\ UNCHANGED <<table, selection, status, workers>>

\* delete_profile, with the user's answer to askyesnocancel.
DeleteProfile ==
    /\ ui = "idle"
    /\ LET profile == get_selected_profile(table, selection)
           ask == Popup("askyesnocancel", "Confirm Deletion")
       IN  IF ~profile.found
           THEN Done("delete", NoSelection(table, status), "", NoFields)
           ELSE \E response \in {"yes", "no", "cancel"} :
                   IF response = "cancel"
                   THEN Done("delete",
                             [table |-> table, status |-> status,
                              refreshed |-> FALSE, events |-> <<ask>>,
                              exc |-> "none"], response, NoFields)
                   ELSE LET cmd == delete_cmd(profile, response) IN
                        \E res \in ToolResults :
                        \E listRes \in ListResultsAfter(cmd, res) :
                           LET out == run_and_refresh(table, status, cmd,
                                                      res, listRes)
                           IN  Done("delete",
                                    [out EXCEPT !.events = <<ask>> \o @],
                                    response, NoFields)
    /\ UNCHANGED <<ui, dialog, workers>>

\* open_profile: starts the thread and shows "Opening Profile".
OpenProfile ==
    /\ ui = "idle"
    /\ LET profile == get_selected_profile(table, selection) IN
       IF ~profile.found
       THEN /\ Done("open", NoSelection(table, status), "", NoFields)
            /\ UNCHANGED workers
       ELSE /\ \E w \in Threads : workers[w].pc = "idle"
            /\ LET w == CHOOSE v \in Threads : workers[v].pc = "idle"
                   cmd == open_cmd(profile)
               IN  /\ workers' = [workers EXCEPT
                                    ![w] = Worker("start", cmd, "none")]
                   /\ last' = Hist("open",
                                   <<ThreadEv(cmd),
                                     Popup("showinfo", "Opening Profile")>>,
                                   "none", TRUE, "", FALSE, NoFields)
            /\ UNCHANGED <<table, selection, status>>
    /\ UNCHANGED <<ui, dialog>>

\* ------------------------------------------- the thread of open_profile

\* run_open up to subprocess.run: set_status("Running: ..."), or the
\* TypeError of ' '.join(cmd) and its error box.
WorkerBegin(w) ==
    /\ workers[w].pc = "start"
    /\ IF workers[w].cmd.allStr
       THEN /\ status' = Running(workers[w].cmd, "worker")
            /\ workers' = [workers EXCEPT ![w].pc = "run"]
       ELSE /\ workers' = [workers EXCEPT
                  ![w] = Worker("fin", NoCmd,
                      Shown(run_command(workers[w].cmd, NoRes, TRUE).events))]
            /\ UNCHANGED status
    /\ last' = AfterThreadStep(last)
    /\ UNCHANGED <<ui, table, selection, dialog>>

\* subprocess.run returns in the thread; run_command shows the output or
\* the error from the thread.
WorkerRun(w) ==
    /\ workers[w].pc = "run"
    /\ \E res \in OpenResults :
          workers' = [workers EXCEPT
              ![w] = Worker("fin", NoCmd,
                            Shown(run_command(workers[w].cmd, res, TRUE).events))]
    /\ last' = AfterThreadStep(last)
    /\ UNCHANGED <<ui, table, selection, status, dialog>>

\* The finally clause of run_command in the thread; the thread ends.
WorkerFinish(w) ==
    /\ workers[w].pc = "fin"
    /\ status' = Ready("worker")
    /\ workers' = [workers EXCEPT ![w] = Idle]
    /\ last' = AfterThreadStep(last)
    /\ UNCHANGED <<ui, table, selection, dialog>>

Next ==
    \/ Construct
    \/ Refresh
    \/ Select
    \/ CreateProfile
    \/ EditProfile
    \/ DialogRejected
    \/ DialogAccepted
    \/ DialogCancel
    \/ DeleteProfile
    \/ OpenProfile
    \/ \E w \in Threads : WorkerBegin(w)
    \/ \E w \in Threads : WorkerRun(w)
    \/ \E w \in Threads : WorkerFinish(w)

Spec == Init /\ [][Next]_vars

\* ----------------------------------------------------------------------
\* Properties.  `last` is the record of the handler that has just returned
\* (or is blocked in its dialog); a later step of the thread replaces it.

Operation(ev) == ev.cmd.argv[3]
RunEvents(h) == {i \in 1..Len(h.events) : h.events[i].e = "run"}
ListRuns(h) == {i \in RunEvents(h) : Operation(h.events[i]) = "list"}
CommandRuns(h) ==
    {i \in RunEvents(h) : Operation(h.events[i]) \in {"create", "edit", "delete"}}
ExitedZero(ev) == ev.res.spawned /\ ev.res.rc = 0
Args(ev) == {ev.cmd.argv[k] : k \in 1..Len(ev.cmd.argv)}
\* The handler reached its run_command (the dialog was accepted, the
\* deletion confirmed).
ReachedCommand(h) ==
    /\ h.op \in {"create", "edit", "delete"}
    /\ h.answer \in {"ok", "yes", "no"}
NonBlank(s) == \E i \in 1..Len(Chars(s)) : Chars(s)[i] # " "
NoSelectionWarning == <<Popup("showwarning", "No Selection")>>

\* C1: when the command of create_profile, edit_profile or delete_profile
\* exits nonzero or cannot be spawned, the tree holds the rows it held when
\* the handler started and the handler made no list invocation.
C1_FailedCommandLeavesTable ==
    (/\ ReachedCommand(last)
     /\ \A i \in CommandRuns(last) : ~ExitedZero(last.events[i]))
    => (last.tableSame /\ ListRuns(last) = {})

C1_Witness ==
    /\ last.op = "delete"
    /\ table # <<>>
    /\ \E i \in CommandRuns(last) :
          last.events[i].res.spawned /\ last.events[i].res.rc = 1

\* C2 (as claimed): after a refresh whose list invocation exits nonzero,
\* cannot be spawned, or exits 0 with stdout that is not JSON, the tree
\* holds the rows it held before.
C2_FailedRefreshKeepsTable ==
    (/\ last.op = "refresh"
     /\ \A i \in ListRuns(last) :
           \/ ~ExitedZero(last.events[i])
           \/ ~json_loads(last.events[i].res.out).ok)
    => last.tableSame

\* C3 (as claimed): after create_profile, edit_profile or delete_profile
\* whose command exits 0, the handler has run list --json, whatever the
\* command printed.
C3_SuccessAlwaysRefreshes ==
    (/\ ReachedCommand(last)
     /\ \E i \in CommandRuns(last) : ExitedZero(last.events[i]))
    => ListRuns(last) # {}

\* C4 (as claimed): the thread of open_profile never writes the status bar
\* and reports nothing of the open invocation to the user.
C4_ThreadSharesNothing ==
    /\ status.by = "ui"
    /\ \A t \in Threads : workers[t].shown = "none"

\* C5 (as claimed): refresh_profiles returns without an exception for every
\* outcome of list --json, from the button and from __init__.
C5_RefreshNeverRaises ==
    /\ last.exc = "none"
    /\ ui # "crashed"

\* C6: after a refresh whose list invocation exits 0 with an array of N
\* well-formed profile objects, the tree holds N rows in the array's order,
\* each (id, name, storage_path, proxy) with proxy "yes" iff proxy_host is
\* present and non-empty, and the status bar reports N profiles.
C6_RefreshShowsListing ==
    \A i \in ListRuns(last) :
        LET res == last.events[i].res
            elems == res.out.doc.elems
        IN  (/\ ExitedZero(last.events[i])
             /\ res.out.doc.t = "array"
             /\ \A k \in 1..Len(elems) :
                   /\ elems[k].dict
                   /\ {"id", "name", "storage_path"} \subseteq elems[k].keys)
            => /\ Len(table) = Len(elems)
               /\ \A k \in 1..Len(elems) :
                     /\ table[k].id = elems[k].id
                     /\ table[k].name = elems[k].name
                     /\ table[k].storage_path = elems[k].storage_path
                     /\ table[k].proxy = "yes" <=>
                           ("proxy_host" \in elems[k].keys
                            /\ elems[k].proxy_host # "")
                     /\ table[k].proxy \in {"yes", "no"}
               /\ status = Loaded(Len(elems), "ui")

C6_Witness ==
    /\ last.op = "refresh"
    /\ ~last.tableSame
    /\ Len(table) = 2
    /\ table[1].proxy = "no"
    /\ table[2].proxy = "yes"
    /\ status.text = "Loaded"

\* C7: a submission of the create / edit dialog with an empty or
\* whitespace-only name leaves the dialog open and runs nothing; a dialog
\* cancelled after any such submissions has run nothing and left the tree
\* as it was.  So: only a non-blank name is ever accepted, an open dialog
\* has run nothing, and a cancelled one has run nothing and kept the rows.
C7_BlankNameRunsNothing ==
    /\ (last.op \in {"create", "edit"} /\ last.answer = "ok")
          => NonBlank(last.submitted.name)
    /\ ui = "dialog" => (RunEvents(last) = {} /\ last.tableSame)
    /\ (last.op \in {"create", "edit"} /\ last.answer = "cancel")
          => (RunEvents(last) = {} /\ last.tableSame /\ ui = "idle")

C7_Witness ==
    /\ last.op = "create"
    /\ last.answer = "cancel"
    /\ last.rejected
    /\ table # <<>>

\* C8: delete_profile asks the three-way confirmation before any delete
\* invocation; Cancel runs nothing and leaves the tree as it was; the delete
\* command carries --remove-storage iff the answer was Yes.
C8_DeleteConfirmation ==
    last.op = "delete" =>
        /\ \A i \in RunEvents(last) :
              \E j \in 1..(i - 1) : last.events[j].kind = "askyesnocancel"
        /\ last.answer = "cancel" =>
              (RunEvents(last) = {} /\ last.tableSame)
        /\ \A i \in CommandRuns(last) :
              /\ Operation(last.events[i]) = "delete"
              /\ "--remove-storage" \in Args(last.events[i])
                    <=> last.answer = "yes"

C8_Witness ==
    /\ last.op = "delete"
    /\ last.answer = "no"
    /\ \E i \in CommandRuns(last) :
          /\ ExitedZero(last.events[i])
          /\ "--remove-storage" \notin Args(last.events[i])

\* C9: edit_profile, delete_profile and open_profile invoked with no row
\* selected show the warning and do nothing else: nothing is run, no thread
\* is started, no dialog is opened, the tree is unchanged.
C9_NoSelectionOnlyWarns ==
    [][(/\ ui = "idle"
        /\ selection = {}
        /\ last'.op \in {"edit", "delete", "open"})
       => (/\ last'.events = NoSelectionWarning
           /\ table' = table
           /\ workers' = workers
           /\ ui' = "idle"
           /\ dialog' = NoDialog
           /\ selection' = {})]_vars

C9_Witness ==
    /\ last.op = "open"
    /\ last.events = NoSelectionWarning
    /\ table # <<>>
    /\ selection = {}

\* C10: the proxy entry of the edit dialog starts empty whatever the
\* selected profile's proxy, and the edit command carries --proxy only when
\* the proxy entry held a non-blank text at the submission.
C10_ProxyNeverPrefilled ==
    /\ (ui = "dialog" /\ dialog.kind = "edit")
          => dialog.initial_data.proxy = ""
    /\ last.op = "edit" =>
          \A i \in CommandRuns(last) :
              "--proxy" \in Args(last.events[i])
                 => NonBlank(last.submitted.proxy)

C10_Witness ==
    /\ ui = "dialog"
    /\ dialog.kind = "edit"
    /\ dialog.profile.proxy = "yes"

====
